---- MODULE Spec2Model ----
(***************************************************************************)
(* A state-machine model of the POETRACIKAL backend (src/main.py,          *)
(* src/schemas.py): registration and login with bearer-token sessions and  *)
(* admin-gated CRUD over a product catalogue, on a document store with     *)
(* the three collections user, session and product.                        *)
(*                                                                         *)
(* Conventions.                                                            *)
(*  - Optional[T] is a set: {} is None, {v} is the value v.                *)
(*  - Passwords, salts and stored password hashes are sequences of         *)
(*    one-character strings, so that "+" is \o and split("$") is computed. *)
(*  - An ObjectId is a natural number; the string form str(ObjectId) is    *)
(*    the record [oid |-> n]; any other string is not a valid ObjectId.    *)
(*  - Handlers run in the server's thread pool.  register is modelled      *)
(*    step by step (existence check, user insert, session insert), since   *)
(*    its reads and writes are separate storage calls.  The other handlers *)
(*    read user and session documents, which no endpoint changes or        *)
(*    removes, and then issue one storage mutation, so each is one atomic  *)
(*    action; update_product's find_one of the updated document is taken   *)
(*    together with its update_one.                                        *)
(*  - database.py is not among the sources: create_document and            *)
(*    get_documents are modelled as the insert and the full scan that      *)
(*    their callers rely on.                                               *)
(***************************************************************************)
EXTENDS Integers, Sequences, FiniteSets, TLC

VARIABLES
    users,      \* db["user"]: sequence of user documents, in insertion order
    sessions,   \* db["session"]: sequence of {user_id, token}
    products,   \* db["product"]: sequence of product documents
    pidGen,     \* number of product ObjectIds generated so far
    reg,        \* the register requests in flight, one per worker
    resp,       \* the request and response of the handler that ran last
    users0,     \* history: the user collection of the initial state
    products0,  \* history: the product collection of the initial state
    deleted     \* history: the product ids a DELETE has answered 200 for

history == <<users0, products0>>

vars ==
    <<users, sessions, products, pidGen, reg, resp, users0, products0, deleted>>

----------------------------------------------------------------------------
(* Bounds of the model *)

MaxUsers == 2
MaxSessions == 2
MaxProductIds == 2

Procs == {1, 2}

Emails == {"alice@x.io", "bob@x.io"}
Names == {"Alice", "A"}
Passwords == {<<"p">>, <<"q", "$">>}
\* values secrets.token_hex(8) may return (hex characters only)
Salts == {<<"a", "1">>}

None == {}
Some(v) == {v}
Val(o) == CHOOSE v \in o : TRUE

----------------------------------------------------------------------------
(* Credential module *)

RECURSIVE Flatten(_)
Flatten(ss) == IF ss = <<>> THEN <<>> ELSE Head(ss) \o Flatten(Tail(ss))

\* hashlib.sha256(s).hexdigest(): a collision-free digest made of hex
\* characters only (each input character contributes its two-digit code).
HexCode(c) ==
    CASE c = "a" -> <<"6", "1">>
      [] c = "b" -> <<"6", "2">>
      [] c = "1" -> <<"3", "1">>
      [] c = "2" -> <<"3", "2">>
      [] c = "p" -> <<"7", "0">>
      [] c = "q" -> <<"7", "1">>
      [] c = "$" -> <<"2", "4">>
      [] OTHER   -> <<"0", "0">>

sha256_hexdigest(s) == Flatten([i \in 1..Len(s) |-> HexCode(s[i])])

\* hash_password(password, salt): rnd is what secrets.token_hex(8) returns
\* when it is called, i.e. when salt is None or empty.
hash_password(password, salt, rnd) ==
    LET s == IF salt = <<>> THEN rnd ELSE salt
    IN  s \o <<"$">> \o sha256_hexdigest(s \o password)

\* str.split(sep): the parts between the occurrences of sep
RECURSIVE split(_, _)
split(s, sep) ==
    IF \A i \in 1..Len(s) : s[i] # sep
    THEN <<s>>
    ELSE LET k == CHOOSE i \in 1..Len(s) :
                      s[i] = sep /\ \A j \in 1..(i-1) : s[j] # sep
         IN  <<SubSeq(s, 1, k-1)>> \o split(SubSeq(s, k+1, Len(s)), sep)

\* verify_password: unpacking anything but two parts raises, which is caught
verify_password(password, stored, rnd) ==
    LET parts == split(stored, "$")
    IN  IF Len(parts) # 2
        THEN FALSE
        ELSE hash_password(password, parts[1], rnd) = stored

----------------------------------------------------------------------------
(* Identifiers *)

\* str(ObjectId) and ObjectId(str); ObjectId(s) raises InvalidId on a string
\* that is not the string form of an ObjectId.
Str(oid) == [oid |-> oid]
BadIdStr == [bad |-> "not-an-objectid"]
ObjectIdValid(s) == "oid" \in DOMAIN s
ObjectId(s) == s.oid

----------------------------------------------------------------------------
(* Storage helpers *)

Min(S) == CHOOSE i \in S : \A j \in S : i <= j

\* collection.find_one(filter) over the indices the filter matches: the
\* first matching document, or None
find_one(coll, matching) ==
    IF matching = {} THEN None ELSE Some(coll[Min(matching)])

\* mutant of get_user_by_email: the filter names the wrong field
get_user_by_name(email) ==
    find_one(users, {i \in 1..Len(users) : users[i].name = email})

get_user_by_email(email) ==
    find_one(users, {i \in 1..Len(users) : users[i].email = email})

\* get_user_from_token, on given contents of db["user"] and db["session"]
user_from_token(user, session, token) ==
    LET sess == find_one(session,
                    {i \in 1..Len(session) : session[i].token = token})
    IN  IF sess = None
        THEN None
        ELSE find_one(user, {i \in 1..Len(user) :
                         user[i]._id = ObjectId(Val(sess).user_id)})

get_user_from_token(token) == user_from_token(users, sessions, token)

\* mutant of FreshToken: the generator repeats the token it gave last
RepeatedToken == IF sessions = <<>> THEN Len(sessions) + 1
                 ELSE sessions[Len(sessions)].token

\* secrets.token_hex(24): a token no session holds yet
FreshToken == Len(sessions) + 1

\* mutant of create_session: the token is returned and never stored
create_session_unsaved(user_id, token) == sessions

\* mutant of create_session: the new session replaces the user's earlier ones
create_session_single(user_id, token) ==
    Append(SelectSeq(sessions, LAMBDA x : x.user_id # user_id),
           [user_id |-> user_id, token |-> token])

\* create_session: the session collection after insert_one
create_session(user_id, token) ==
    Append(sessions, [user_id |-> user_id, token |-> token])

\* create_document(collection, model): the collection after the insert of
\* the model's fields under a newly generated ObjectId
create_document(coll, doc, oid) ==
    Append(coll, [f \in DOMAIN doc \cup {"_id"} |->
                      IF f = "_id" THEN oid ELSE doc[f]])

\* list_products shaping a document: "_id" popped and returned as the
\* string "id"
ListedDoc(d) ==
    [f \in (DOMAIN d \ {"_id"}) \cup {"id"} |->
        IF f = "id" THEN Str(d._id) ELSE d[f]]

\* get_documents(collection_name): the documents of the collection
get_documents(coll) == coll

list_products_result ==
    LET docs == get_documents(products)
    IN  [i \in 1..Len(docs) |-> ListedDoc(docs[i])]

\* mutant of IsAdmin: the role is not looked at
IsLoggedIn(token) ==
    LET user == IF token # None THEN get_user_from_token(Val(token)) ELSE None
    IN  user # None

\* `user = get_user_from_token(token) if token else None` followed by
\* `not user or user.get("role") != "admin"`, negated
IsAdmin(token) ==
    LET user == IF token # None THEN get_user_from_token(Val(token)) ELSE None
    IN  user # None /\ Val(user).role = "admin"

----------------------------------------------------------------------------
(* Schemas *)

\* schemas.User: name has min_length 2; role defaults to "customer",
\* is_active to True
UserSchemaValid(name) == Len(name) >= 2

\* mutant of UserSchema: the role given is dropped for a wrong default
UserSchemaAdmin(name, email, password_hash, role) ==
    [name |-> name, email |-> email, password_hash |-> password_hash,
     role |-> "admin", is_active |-> TRUE]

UserSchema(name, email, password_hash, role) ==
    [name |-> name, email |-> email, password_hash |-> password_hash,
     role |-> role, is_active |-> TRUE]

\* schemas.Product: price has ge=0
ProductSchemaValid(payload) == payload.price >= 0

\* {k: v for k, v in payload.model_dump().items() if v is not None}
update_data(payload) == {f \in DOMAIN payload : payload[f] # None}

\* the fields of a product document that hold an Optional value
OptionalFields == {"description", "unit", "image"}

\* update_one(..., {"$set": update_data}) applied to the matched document
SetFields(doc, payload) ==
    [f \in DOMAIN doc |->
        IF f \in update_data(payload)
        THEN (IF f \in OptionalFields THEN payload[f] ELSE Val(payload[f]))
        ELSE doc[f]]

\* mutant of ProductIndex: the filter matches every product
AnyProductIndex(product_id) == 1..Len(products)

\* the documents of db["product"] that the filter {"_id": ObjectId(id)} matches
ProductIndex(product_id) ==
    {i \in 1..Len(products) : products[i]._id = ObjectId(product_id)}

\* the sequence s without its i-th element
RemoveAt(s, i) == SubSeq(s, 1, i-1) \o SubSeq(s, i+1, Len(s))

----------------------------------------------------------------------------
(* Request inputs *)

RegisterRequests == [name : Names, email : Emails, password : Passwords]
LoginRequests == [email : Emails, password : Passwords]

ProductCreateRequests ==
    {[name |-> "Rice", price |-> p, unit |-> None, description |-> None,
      image |-> None, in_stock |-> TRUE] : p \in {-1, 12}}

EmptyUpdate ==
    [name |-> None, price |-> None, unit |-> None, description |-> None,
     image |-> None, in_stock |-> None]

ProductUpdateRequests ==
    {EmptyUpdate}
    \cup {[EmptyUpdate EXCEPT !.price = Some(p)] : p \in {-1, 0}}

\* the token parameter: absent, or a token string (held by a session or not)
Tokens == {None} \cup {Some(t) : t \in 1..(MaxSessions + 1)}

\* the product_id path parameter: the string form of an ObjectId (of a
\* product that exists, existed or does not exist yet), or a string that is
\* none
ProductIds == {Str(n) : n \in 1..MaxProductIds} \cup {BadIdStr}

----------------------------------------------------------------------------
(* Initial states: an empty store; a store in which an operator made Bob an
   admin out of band (no endpoint creates one); a store that holds a product
   and a session whose user was removed from the user collection. *)

AdminUser ==
    [_id |-> 1, name |-> "Bob", email |-> "bob@x.io",
     password_hash |-> hash_password(<<"p">>, <<"b", "2">>, <<>>),
     role |-> "admin", is_active |-> TRUE]

SeedProduct ==
    [_id |-> 1, name |-> "Salt", price |-> 3, unit |-> None,
     description |-> None, image |-> None, in_stock |-> TRUE]

StaleSession == [user_id |-> Str(0), token |-> 1]

\* a register worker: where it is in the handler, and the handler's locals
IdleReg == [pc |-> "idle", user |-> None, user_id |-> None, status |-> 0,
            token |-> None]

NoOut == [none |-> TRUE]

NoResp == [op |-> "none", status |-> 0, out |-> NoOut]

Stores ==
    {[user |-> <<>>, session |-> <<>>, product |-> <<>>],
     [user |-> <<AdminUser>>, session |-> <<>>, product |-> <<>>],
     [user |-> <<>>, session |-> <<StaleSession>>,
      product |-> <<SeedProduct>>]}

Init ==
    /\ \E store \in Stores :
           /\ users = store.user
           /\ sessions = store.session
           /\ products = store.product
    /\ pidGen = Len(products)
    /\ reg = [p \in Procs |-> IdleReg]
    /\ resp = NoResp
    /\ users0 = users
    /\ products0 = products
    /\ deleted = {}

----------------------------------------------------------------------------
(* POST /auth/register.  A step ends where the handler's next storage call
   begins: find_one (with the local work that follows it), the insert of the
   user, the insert of the session. *)

InFlight(pcs) == Cardinality({p \in Procs : reg[p].pc \in pcs})

RegDone(r, status, token) ==
    [r EXCEPT !.pc = "done", !.user = None, !.status = status,
              !.token = token]

\* `if get_user_by_email(payload.email): raise HTTPException(400)`, then
\* hash_password and UserSchema(...), whose ValidationError is not caught
\* and answers 500
RegisterCheck(p, payload, rnd) ==
    /\ reg[p].pc = "idle"
    /\ IF get_user_by_email(payload.email) # None
       THEN reg' = [reg EXCEPT ![p] = RegDone(@, 400, None)]
       ELSE IF ~UserSchemaValid(payload.name)
       THEN reg' = [reg EXCEPT ![p] = RegDone(@, 500, None)]
       ELSE /\ Len(users) + InFlight({"insert"}) < MaxUsers
            /\ Len(sessions) + InFlight({"insert", "session"}) < MaxSessions
            /\ reg' = [reg EXCEPT ![p] =
                  [@ EXCEPT !.pc = "insert",
                            !.user = Some(UserSchema(payload.name,
                                payload.email,
                                hash_password(payload.password, <<>>, rnd),
                                "customer"))]]
    /\ UNCHANGED <<users, sessions, products, pidGen, resp, history, deleted>>

\* user_id = create_document("user", user)
RegisterInsert(p) ==
    /\ reg[p].pc = "insert"
    /\ LET oid == Len(users) + 1
       IN  /\ users' = create_document(users, Val(reg[p].user), oid)
           /\ reg' = [reg EXCEPT ![p] =
                         [@ EXCEPT !.pc = "session", !.user = None,
                                   !.user_id = Some(Str(oid))]]
    /\ UNCHANGED <<sessions, products, pidGen, resp, history, deleted>>

\* token = create_session(user_id); return {"token": token, "user": ...}
RegisterSession(p) ==
    /\ reg[p].pc = "session"
    /\ sessions' = create_session(Val(reg[p].user_id), FreshToken)
    /\ reg' = [reg EXCEPT ![p] = RegDone(@, 200, Some(FreshToken))]
    /\ UNCHANGED <<users, products, pidGen, resp, history, deleted>>

\* create_document or create_session raises (the storage is unreachable):
\* register catches nothing, the request is answered 500 and what it wrote
\* so far stays
RegisterStorageError(p) ==
    /\ reg[p].pc \in {"insert", "session"}
    /\ reg' = [reg EXCEPT ![p] = RegDone(@, 500, None)]
    /\ UNCHANGED <<users, sessions, products, pidGen, resp, history, deleted>>

\* the response leaves the server; the worker takes the next request
RegisterReturn(p) ==
    /\ reg[p].pc = "done"
    /\ reg' = [reg EXCEPT ![p] = IdleReg]
    /\ UNCHANGED <<users, sessions, products, pidGen, resp, history, deleted>>

----------------------------------------------------------------------------
(* The handlers that run as one step.  resp records which handler ran last
   and what it answered. *)

Respond(op, status, out) == [op |-> op, status |-> status, out |-> out]

\* POST /auth/login
Login(payload, rnd) ==
    LET user == get_user_by_email(payload.email)
    IN  /\ IF user = None
              \/ ~verify_password(payload.password, Val(user).password_hash, rnd)
           THEN /\ resp' = Respond("login", 401, NoOut)
                /\ sessions' = sessions
           ELSE /\ Len(sessions) + InFlight({"insert", "session"}) < MaxSessions
                /\ sessions' = create_session(Str(Val(user)._id), FreshToken)
                /\ resp' = Respond("login", 200,
                               [token |-> FreshToken,
                                id |-> Str(Val(user)._id)])
        /\ UNCHANGED <<users, products, pidGen, reg, history, deleted>>

\* GET /products
ListProducts ==
    /\ resp' = Respond("list_products", 200, [docs |-> list_products_result])
    /\ UNCHANGED <<users, sessions, products, pidGen, reg, history, deleted>>

\* POST /products; ProductSchema's ValidationError is not caught: 500
CreateProduct(payload, token) ==
    LET oid == pidGen + 1
    IN  /\ IF ~IsAdmin(token)
           THEN /\ resp' = Respond("create_product", 403, NoOut)
                /\ UNCHANGED <<products, pidGen>>
           ELSE IF ~ProductSchemaValid(payload)
           THEN /\ resp' = Respond("create_product", 500, NoOut)
                /\ UNCHANGED <<products, pidGen>>
           ELSE /\ pidGen < MaxProductIds
                /\ products' = create_document(products, payload, oid)
                /\ pidGen' = oid
                /\ resp' = Respond("create_product", 200, [id |-> Str(oid)])
        /\ UNCHANGED <<users, sessions, reg, history, deleted>>

\* PUT /products/{product_id}; ObjectId's InvalidId is not caught: 500
UpdateProduct(product_id, payload, token) ==
    /\ IF ~IsAdmin(token)
       THEN /\ resp' = Respond("update_product", 403, NoOut)
            /\ products' = products
       ELSE IF update_data(payload) = {}
       THEN /\ resp' = Respond("update_product", 400, NoOut)
            /\ products' = products
       ELSE IF ~ObjectIdValid(product_id)
       THEN /\ resp' = Respond("update_product", 500, NoOut)
            /\ products' = products
       ELSE IF ProductIndex(product_id) = {}
       THEN /\ resp' = Respond("update_product", 404, NoOut)
            /\ products' = products
       ELSE LET i == Min(ProductIndex(product_id))
                doc == SetFields(products[i], payload)
            IN  /\ products' = [products EXCEPT ![i] = doc]
                /\ resp' = Respond("update_product", 200,
                                   [id |-> Str(doc._id)])
    /\ UNCHANGED <<users, sessions, pidGen, reg, history, deleted>>

\* DELETE /products/{product_id}
DeleteProduct(product_id, token) ==
    /\ IF ~IsAdmin(token)
       THEN /\ resp' = Respond("delete_product", 403, NoOut)
            /\ UNCHANGED <<products, deleted>>
       ELSE IF ~ObjectIdValid(product_id)
       THEN /\ resp' = Respond("delete_product", 500, NoOut)
            /\ UNCHANGED <<products, deleted>>
       ELSE IF ProductIndex(product_id) = {}
       THEN /\ resp' = Respond("delete_product", 404, NoOut)
            /\ UNCHANGED <<products, deleted>>
       ELSE /\ products' = RemoveAt(products, Min(ProductIndex(product_id)))
            /\ deleted' = deleted \cup {ObjectId(product_id)}
            /\ resp' = Respond("delete_product", 200, [ok |-> TRUE])
    /\ UNCHANGED <<users, sessions, pidGen, reg, history>>

----------------------------------------------------------------------------

Next ==
    \/ \E p \in Procs, payload \in RegisterRequests, rnd \in Salts :
           RegisterCheck(p, payload, rnd)
    \/ \E p \in Procs : RegisterInsert(p)
    \/ \E p \in Procs : RegisterSession(p)
    \/ \E p \in Procs : RegisterStorageError(p)
    \/ \E p \in Procs : RegisterReturn(p)
    \/ \E payload \in LoginRequests, rnd \in Salts : Login(payload, rnd)
    \/ ListProducts
    \/ \E payload \in ProductCreateRequests, token \in Tokens :
           CreateProduct(payload, token)
    \/ \E product_id \in ProductIds, payload \in ProductUpdateRequests,
          token \in Tokens : UpdateProduct(product_id, payload, token)
    \/ \E product_id \in ProductIds, token \in Tokens :
           DeleteProduct(product_id, token)

Spec == Init /\ [][Next]_vars

----------------------------------------------------------------------------
(* Vocabulary of the properties, stated on the collections themselves *)

UserIds == {users[i]._id : i \in 1..Len(users)}
SessionTokens == {sessions[j].token : j \in 1..Len(sessions)}
ProductIdStrs == {Str(products[i]._id) : i \in 1..Len(products)}
EmailTaken(email) == \E i \in 1..Len(users) : users[i].email = email

\* the user a token stands for: the token is held by a session whose user
\* is in the user collection
TokenUsers(token) ==
    {u \in {users[i] : i \in 1..Len(users)} :
        \E j \in 1..Len(sessions) :
            /\ sessions[j].token = token
            /\ sessions[j].user_id = Str(u._id)}

\* no token, a token no session holds, a session whose user is gone, or a
\* user whose role is not admin
NotAdminToken(token) ==
    \/ token = None
    \/ Val(token) \notin SessionTokens
    \/ TokenUsers(Val(token)) = {}
    \/ \E u \in TokenUsers(Val(token)) : u.role # "admin"

AdminToken(token) ==
    /\ token # None
    /\ TokenUsers(Val(token)) # {}
    /\ \A u \in TokenUsers(Val(token)) : u.role = "admin"

\* the user document was made from password p (under some salt)
RegisteredWith(u, p) ==
    \E salt \in Salts : u.password_hash = hash_password(p, salt, salt)

Customers == {i \in 1..Len(users) : users[i].role = "customer"}

HasSession(oid) == \E j \in 1..Len(sessions) : sessions[j].user_id = Str(oid)

----------------------------------------------------------------------------
\* the step is one of the handler `op` (and of no register worker)
StepOf(op) == reg' = reg /\ resp'.op = op

(* C1: POST, PUT and DELETE on products called with no token, with a token
   no session holds, with a token whose session's user is gone, or with the
   token of a user who is not an admin, answer 403 and leave the product
   collection as it was, whatever the body and the product id. *)
C1_Forbidden ==
    [][\/ (resp'.status = 403 /\ products' = products)
       \/ ~\E token \in Tokens :
             /\ NotAdminToken(token)
             /\ \/ /\ StepOf("create_product")
                   /\ \E payload \in ProductCreateRequests :
                         CreateProduct(payload, token)
                \/ /\ StepOf("update_product")
                   /\ \E product_id \in ProductIds,
                         payload \in ProductUpdateRequests :
                         UpdateProduct(product_id, payload, token)
                \/ /\ StepOf("delete_product")
                   /\ \E product_id \in ProductIds :
                         DeleteProduct(product_id, token)]_vars

\* a customer holds a session, an admin holds one, products exist, and the
\* product mutation that ran last was answered 403
C1_Witness ==
    /\ resp.op \in {"create_product", "update_product", "delete_product"}
    /\ resp.status = 403
    /\ products # <<>>
    /\ \E t \in SessionTokens : \E u \in TokenUsers(t) : u.role = "customer"
    /\ \E t \in SessionTokens : AdminToken(Some(t))

(* C2: a register whose email is the email of a user in the collection when
   the handler looks it up is answered 400 and inserts neither a user nor a
   session: the lookup ends the request, and an ended request writes
   nothing more. *)
C2_DuplicateEmail ==
    [][\A p \in Procs : reg'[p] # reg[p] =>
         /\ \A payload \in RegisterRequests, rnd \in Salts :
               (EmailTaken(payload.email) /\ RegisterCheck(p, payload, rnd)) =>
                 /\ reg'[p].pc = "done"
                 /\ reg'[p].status = 400
                 /\ users' = users
                 /\ sessions' = sessions
         /\ reg[p].pc = "done" =>
               /\ reg'[p].pc = "idle"
               /\ users' = users
               /\ sessions' = sessions]_vars

\* a registered user exists and a register was answered 400
C2_Witness ==
    \E p \in Procs :
        /\ reg[p].pc = "done"
        /\ reg[p].status = 400
        /\ \E i \in Customers : HasSession(users[i]._id)

\* what C3 says of a login with payload, for the user document users[i]
LoginAnswer(i, payload) ==
    IF RegisteredWith(users[i], payload.password)
    THEN /\ resp'.status = 200
         /\ Len(sessions') = Len(sessions) + 1
         /\ user_from_token(users', sessions', resp'.out.token)
               = Some(users[i])
    ELSE /\ resp'.status = 401
         /\ sessions' = sessions

(* C3: for a user registered with email e and password p, login with e and
   any other password is answered 401 and creates no session; login with e
   and p is answered 200, creates exactly one session and returns a token
   that get_user_from_token maps to that user. *)
C3_Login ==
    [][StepOf("login") =>
         \A payload \in LoginRequests, rnd \in Salts :
            Login(payload, rnd) =>
               \A i \in Customers :
                  users[i].email = payload.email => LoginAnswer(i, payload)]_vars

\* what does hold: the same, for an email that one user document holds
C3_LoginUniqueEmail ==
    [][StepOf("login") =>
         \A payload \in LoginRequests, rnd \in Salts :
            Login(payload, rnd) =>
               \A i \in Customers :
                  (/\ users[i].email = payload.email
                   /\ \A k \in 1..Len(users) :
                         users[k].email = payload.email => k = i)
                     => LoginAnswer(i, payload)]_vars

\* what C4 says of an admin's PUT of payload on product_id
UpdateAnswer(product_id, payload) ==
    IF payload = EmptyUpdate
    THEN resp'.status = 400 /\ products' = products
    ELSE product_id \notin ProductIdStrs =>
             (resp'.status = 404 /\ products' = products)

(* C4: for an admin, PUT with an empty body is answered 400 and PUT with a
   non-empty body on an id that is not in the product collection is answered
   404; both leave the product collection unchanged. *)
C4_UpdateErrors ==
    [][StepOf("update_product") =>
         \A token \in Tokens : AdminToken(token) =>
            \A product_id \in ProductIds, payload \in ProductUpdateRequests :
               UpdateProduct(product_id, payload, token) =>
                  UpdateAnswer(product_id, payload)]_vars

\* what does hold: the same, for the ids that are the string of an ObjectId
C4_UpdateErrorsValidId ==
    [][StepOf("update_product") =>
         \A token \in Tokens : AdminToken(token) =>
            \A product_id \in ProductIds \ {BadIdStr},
               payload \in ProductUpdateRequests :
               UpdateProduct(product_id, payload, token) =>
                  UpdateAnswer(product_id, payload)]_vars

\* what C5 says of an admin's DELETE of product_id
DeleteAnswer(product_id) ==
    IF product_id \in ProductIdStrs
    THEN /\ resp'.status = 200
         /\ products' = SelectSeq(products,
                                  LAMBDA d : Str(d._id) # product_id)
         /\ \A k \in 1..Len(list_products_result') :
               list_products_result'[k].id # product_id
    ELSE (ObjectIdValid(product_id) /\ ObjectId(product_id) \in deleted) =>
             (resp'.status = 404 /\ products' = products)

(* C5: for an admin, DELETE of an existing product removes exactly that
   product, and a GET /products that follows does not list it; a second
   DELETE of the same id is answered 404 and changes nothing. *)
C5_Delete ==
    /\ [](resp.op = "list_products" =>
             \A k \in 1..Len(resp.out.docs) :
                ObjectId(resp.out.docs[k].id) \notin deleted)
    /\ [][StepOf("delete_product") =>
            \A token \in Tokens : AdminToken(token) =>
               \A product_id \in ProductIds :
                  DeleteProduct(product_id, token) =>
                     DeleteAnswer(product_id)]_vars

\* every product id has been generated, one of them was deleted and another
\* product is left, and the DELETE that ran last was answered 404
C5_Witness ==
    /\ resp.op = "delete_product"
    /\ resp.status = 404
    /\ pidGen = MaxProductIds
    /\ deleted # {}
    /\ products # <<>>

(* C6: after any sequence of POST /products and PUT /products/{id} by an
   admin, every product document has price >= 0. *)
C6_PriceNonNegative == \A i \in 1..Len(products) : products[i].price >= 0

(* C7, as claimed: no state holds a user document inserted by register
   whose request did not insert that user's session. *)
C7_NoPartialRegister == \A i \in Customers : HasSession(users[i]._id)

\* the number of collections a step writes to
Writes ==
    (IF users' # users THEN 1 ELSE 0)
    + (IF sessions' # sessions THEN 1 ELSE 0)
    + (IF products' # products THEN 1 ELSE 0)

(* C7, amended: every handler but register writes at most once; register
   writes twice, the user and then the session, so that its user document
   can be in the collection with no session: what holds is that a register
   answered 200 has inserted both, and that a session is only inserted for
   a user document that is in the collection. *)
C7_RegisterWrites ==
    /\ [](\A p \in Procs :
             (reg[p].pc = "done" /\ reg[p].status = 200) =>
                /\ ObjectId(Val(reg[p].user_id)) \in UserIds
                /\ \E j \in 1..Len(sessions) :
                      sessions[j] = [user_id |-> Val(reg[p].user_id),
                                     token |-> Val(reg[p].token)])
    /\ [](\A j \in 1..Len(sessions) :
             sessions[j] # StaleSession =>
                ObjectId(sessions[j].user_id) \in UserIds)
    /\ [][reg' = reg => Writes <= 1]_vars

\* a registered user has no session and no register is about to insert one
C7_Witness ==
    /\ \E i \in Customers : ~HasSession(users[i]._id)
    /\ \A p \in Procs : reg[p].pc # "session"

(* C8: two registers with the same email that both look the email up before
   either inserts both succeed: each is answered 200 with its own token,
   which stands for its own user document. *)
C8_OwnTokenOwnUser ==
    \A p \in Procs, q \in Procs :
        (/\ reg[p].pc = "done" /\ reg[p].status = 200
         /\ reg[q].pc = "done" /\ reg[q].status = 200) =>
           /\ get_user_from_token(Val(reg[p].token)) # None
           /\ Str(Val(get_user_from_token(Val(reg[p].token)))._id)
                 = Val(reg[p].user_id)
           /\ p # q => /\ reg[p].user_id # reg[q].user_id
                       /\ reg[p].token # reg[q].token

\* both workers were answered 200 and their user documents hold one email
C8_Witness ==
    /\ \A p \in Procs : reg[p].pc = "done" /\ reg[p].status = 200
    /\ \E i \in 1..Len(users), k \in 1..Len(users) :
          /\ i # k
          /\ users[i].email = users[k].email
          /\ Str(users[i]._id) = Val(reg[1].user_id)
          /\ Str(users[k]._id) = Val(reg[2].user_id)

(* C9: no step changes the role or is_active of a user document, every
   user document a step adds has role customer, and from a store with no
   admin no admin appears and the product collection stays as it was. *)
C9_RolesFixed ==
    /\ [][/\ Len(users') >= Len(users)
          /\ \A i \in 1..Len(users) :
                /\ users'[i]._id = users[i]._id
                /\ users'[i].role = users[i].role
                /\ users'[i].is_active = users[i].is_active
          /\ \A i \in (Len(users) + 1)..Len(users') :
                users'[i].role = "customer"]_vars
    /\ []((\A i \in 1..Len(users0) : users0[i].role # "admin") =>
             /\ \A i \in 1..Len(users) : users[i].role # "admin"
             /\ products = products0)

\* the store began with a product and no admin, a customer holds a session,
\* and a product mutation was answered 403
C9_Witness ==
    /\ \A i \in 1..Len(users0) : users0[i].role # "admin"
    /\ products0 # <<>>
    /\ \E i \in Customers : HasSession(users[i]._id)
    /\ resp.op \in {"create_product", "update_product", "delete_product"}
    /\ resp.status = 403

(* C10: sessions are only added: a token that a session holds stands for
   the same user in every later state, and a login answered 200 appends one
   session with a token no session held, leaving the others as they were. *)
C10_SessionsKept ==
    /\ [][\A j \in 1..Len(sessions) :
             user_from_token(users', sessions', sessions[j].token)
                = user_from_token(users, sessions, sessions[j].token)]_vars
    /\ [][(StepOf("login") /\ resp'.status = 200) =>
             /\ Len(sessions') = Len(sessions) + 1
             /\ SubSeq(sessions', 1, Len(sessions)) = sessions
             /\ sessions'[Len(sessions')].token = resp'.out.token
             /\ resp'.out.token \notin SessionTokens]_vars

\* a user logged in again: two sessions, each token stands for that user
C10_Witness ==
    /\ resp.op = "login"
    /\ resp.status = 200
    /\ \E j \in 1..Len(sessions), k \in 1..Len(sessions) :
          /\ j < k
          /\ sessions[j].user_id = sessions[k].user_id
          /\ sessions[j].token # sessions[k].token
          /\ get_user_from_token(sessions[j].token) # None
          /\ get_user_from_token(sessions[j].token)
                = get_user_from_token(sessions[k].token)

====
